---------------------------- MODULE Spec2Model ----------------------------
(***************************************************************************)
(* A model of package semver (mkyc/go-semver): Parse, SemVer.String,       *)
(* SemVer.IsRelease, SemVer.Compare and Sort.  The package is a set of     *)
(* functions over strings, the SemVer struct and slices of SemVer;         *)
(* each is an operator here, computed the way the                          *)
(* Go code computes it, and each specification draws inputs from a bounded *)
(* set and applies the functions to them.                                  *)
(*                                                                         *)
(* Go strings are TLA+ strings; a byte of a string s is the one-character  *)
(* string SubSeq(s, i, i) and ByteOf gives its ASCII code.                 *)
(*                                                                         *)
(*   Spec         Parse of an input text, then String of the result        *)
(*   SpecInverse  String of a value built directly, then Parse of the      *)
(*                text; IsRelease of the value                             *)
(*   SpecCompare  Compare of two values built directly, in both orders     *)
(*   SpecTriple   Compare on the three pairs of three values               *)
(*   SpecSort     Sort of a slice built directly                           *)
(***************************************************************************)
EXTENDS Integers, Sequences, FiniteSets, TLC

VARIABLES
    pc,        \* which call has been made last
    tag,       \* the argument of Parse
    parsed,    \* what Parse(tag) returned: [err, v]
    rendered,  \* what parsed.v.String() returned
    a,         \* a SemVer value built by field initialisation
    b,         \* a second one
    cmp,       \* what a.Compare(b) returned
    rev,       \* what b.Compare(a) returned
    third,     \* a third SemVer value
    cmpBC,     \* what b.Compare(third) returned
    cmpAC,     \* what a.Compare(third) returned
    release,   \* what a.IsRelease() returned
    impl,      \* the algorithm sort.Slice runs in the toolchain of the build
    versions,  \* the slice given to Sort, as it was before the call
    sorted     \* the same slice after Sort returned

\* What the calls on three values and the calls of IsRelease and Sort leave.
others == <<third, cmpBC, cmpAC, release, impl, versions, sorted>>

vars == <<pc, tag, parsed, rendered, a, b, cmp, rev, others>>

---------------------------------------------------------------------------
(* Bytes and strings                                                       *)

DigitChars == "0123456789"
UpperChars == "ABCDEFGHIJKLMNOPQRSTUVWXYZ"
LowerChars == "abcdefghijklmnopqrstuvwxyz"

CharAt(s, i) == SubSeq(s, i, i)

CharsOf(s) == {CharAt(s, i) : i \in 1..Len(s)}

IndexIn(s, c) == CHOOSE i \in 1..Len(s) : CharAt(s, i) = c

\* The ASCII code of every byte the inputs of this model are made of.
ByteOf ==
    [c \in CharsOf(DigitChars) \cup CharsOf(UpperChars) \cup CharsOf(LowerChars)
           \cup {" ", "+", "-", ".", "_"} |->
        CASE c \in CharsOf(DigitChars) -> 47 + IndexIn(DigitChars, c)
          [] c \in CharsOf(UpperChars) -> 64 + IndexIn(UpperChars, c)
          [] c \in CharsOf(LowerChars) -> 96 + IndexIn(LowerChars, c)
          [] c = " " -> 32
          [] c = "+" -> 43
          [] c = "-" -> 45
          [] c = "." -> 46
          [] c = "_" -> 95]

\* Go's s < t on strings: byte-wise lexicographic, a proper prefix is less.
RECURSIVE StrLess(_, _)
StrLess(s, t) ==
    IF t = "" THEN FALSE
    ELSE IF s = "" THEN TRUE
    ELSE IF ByteOf[Head(s)] # ByteOf[Head(t)] THEN ByteOf[Head(s)] < ByteOf[Head(t)]
    ELSE StrLess(Tail(s), Tail(t))

\* strings.Index(s, sep) for a one-byte sep, 1-based; 0 when sep is not in s.
IndexByte(s, sep) ==
    IF \E i \in 1..Len(s) : CharAt(s, i) = sep
    THEN CHOOSE i \in 1..Len(s) :
            CharAt(s, i) = sep /\ \A j \in 1..(i - 1) : CharAt(s, j) # sep
    ELSE 0

\* strings.SplitN(s, sep, 2): cut at the first sep, or the whole of s.
SplitN2(s, sep) ==
    LET i == IndexByte(s, sep)
    IN  IF i = 0 THEN <<s>>
        ELSE <<SubSeq(s, 1, i - 1), SubSeq(s, i + 1, Len(s))>>

\* strings.Split(s, sep): every piece between separators; Split("") = [""].
RECURSIVE Split(_, _)
Split(s, sep) ==
    LET i == IndexByte(s, sep)
    IN  IF i = 0 THEN <<s>>
        ELSE <<SubSeq(s, 1, i - 1)>> \o Split(SubSeq(s, i + 1, Len(s)), sep)

\* strings.HasPrefix(s, "0")
HasPrefix0(s) == Len(s) > 0 /\ Head(s) = "0"

---------------------------------------------------------------------------
(* strconv.ParseUint(s, 10, bitSize) and fmt's %d                          *)

\* strconv.IntSize: the width of uint, which bitSize 0 selects.
IntSize == 64

AllDigits(s) == \A i \in 1..Len(s) : CharAt(s, i) \in CharsOf(DigitChars)

RECURSIVE StripZeros(_)
StripZeros(s) == IF Len(s) > 1 /\ Head(s) = "0" THEN StripZeros(Tail(s)) ELSE s

\* 2^bitSize - 1 in decimal.
MaxUintText(bitSize) ==
    IF bitSize = 32 THEN "4294967295" ELSE "18446744073709551615"

\* The value of a digit string exceeds 2^bitSize - 1.  ParseUint finds this
\* while accumulating; here it is read off the digits, the accumulator of a
\* 20-digit number being beyond TLC's integers.
OutOfRange(s, bitSize) ==
    LET d == StripZeros(s)
        m == MaxUintText(bitSize)
    IN  \/ Len(d) > Len(m)
        \/ Len(d) = Len(m) /\ StrLess(m, d)

RECURSIVE DigitsValue(_, _)
DigitsValue(s, acc) ==
    IF s = "" THEN acc
    ELSE DigitsValue(Tail(s), acc * 10 + (ByteOf[Head(s)] - 48))

\* ParseUint without the range error: a number beyond the range is cut to its
\* last nine digits and returned.
ParseUintTruncates(s, bitSize) ==
    LET bits == IF bitSize = 0 THEN IntSize ELSE bitSize
    IN  IF s = "" \/ ~AllDigits(s) THEN [err |-> "syntax", n |-> 0]
        ELSE IF OutOfRange(s, bits)
             THEN [err |-> "", n |-> DigitsValue(SubSeq(s, Len(s) - 8, Len(s)), 0)]
        ELSE [err |-> "", n |-> DigitsValue(s, 0)]

\* err is "" for a nil error.  n is the value when err is nil; with an error
\* Go returns 0 or 2^bitSize - 1, which no caller in this package reads.
ParseUint(s, bitSize) ==
    LET bits == IF bitSize = 0 THEN IntSize ELSE bitSize
    IN  IF s = "" \/ ~AllDigits(s) THEN [err |-> "syntax", n |-> 0]
        ELSE IF OutOfRange(s, bits) THEN [err |-> "range", n |-> 0]
        ELSE [err |-> "", n |-> DigitsValue(s, 0)]

RECURSIVE FormatUint(_)
FormatUint(n) ==
    IF n < 10 THEN CharAt(DigitChars, n + 1)
    ELSE FormatUint(n \div 10) \o CharAt(DigitChars, (n % 10) + 1)

---------------------------------------------------------------------------
(* type SemVer                                                             *)

SemVer(major, minor, patch, pre, build) ==
    [Major |-> major, Minor |-> minor, Patch |-> patch,
     PreRelease |-> pre, Build |-> build]

ZeroSemVer == SemVer(0, 0, 0, "", "")

\* String with the build metadata left off a pre-release version.
StringDropsBuild(s) ==
    LET core == FormatUint(s.Major) \o "." \o FormatUint(s.Minor)
                    \o "." \o FormatUint(s.Patch)
    IN  IF s.PreRelease # "" THEN core \o "-" \o s.PreRelease
        ELSE IF s.Build # "" THEN core \o "+" \o s.Build
        ELSE core

\* func (s SemVer) String() string
String(s) ==
    LET core == FormatUint(s.Major) \o "." \o FormatUint(s.Minor)
                    \o "." \o FormatUint(s.Patch)
        withPre == IF s.PreRelease # "" THEN core \o "-" \o s.PreRelease ELSE core
    IN  IF s.Build # "" THEN withPre \o "+" \o s.Build ELSE withPre

\* func (s SemVer) IsRelease() bool
\* IsRelease that also wants the build metadata empty.
IsReleaseNoBuild(s) == s.PreRelease = "" /\ s.Build = ""

IsRelease(s) == s.PreRelease = ""

\* The character test of Parse's two validation loops.
\* The character test with the underscore let through.
IsIdentByteWide(c) ==
    LET x == ByteOf[c]
    IN  \/ x >= ByteOf["0"] /\ x <= ByteOf["9"]
        \/ x >= ByteOf["a"] /\ x <= ByteOf["z"]
        \/ x >= ByteOf["A"] /\ x <= ByteOf["Z"]
        \/ c = "-"
        \/ c = "_"

IsIdentByte(c) ==
    LET x == ByteOf[c]
    IN  \/ x >= ByteOf["0"] /\ x <= ByteOf["9"]
        \/ x >= ByteOf["a"] /\ x <= ByteOf["z"]
        \/ x >= ByteOf["A"] /\ x <= ByteOf["Z"]
        \/ c = "-"

Failure(kind) == [err |-> kind, v |-> ZeroSemVer]

\* The first error of the pre-release loop, "" when every part passes.
RECURSIVE PreReleaseError(_)
PreReleaseError(parts) ==
    IF parts = <<>> THEN ""
    ELSE LET part == Head(parts)
         IN  IF part = "" THEN "pre-release: empty identifier"
             ELSE IF ParseUint(part, 64).err = ""
                  THEN IF part # "0" /\ HasPrefix0(part)
                       THEN "pre-release: leading zeros"
                       ELSE PreReleaseError(Tail(parts))
                  ELSE IF \E i \in 1..Len(part) : ~IsIdentByte(CharAt(part, i))
                       THEN "pre-release: invalid character"
                       ELSE PreReleaseError(Tail(parts))

\* The build loop with the leading-zero test of the pre-release loop.
RECURSIVE BuildErrorLeadingZeros(_)
BuildErrorLeadingZeros(parts) ==
    IF parts = <<>> THEN ""
    ELSE LET part == Head(parts)
         IN  IF part = "" THEN "build: empty identifier"
             ELSE IF ParseUint(part, 64).err = ""
                  THEN IF part # "0" /\ HasPrefix0(part)
                       THEN "build: leading zeros"
                       ELSE BuildErrorLeadingZeros(Tail(parts))
                  ELSE IF \E i \in 1..Len(part) : ~IsIdentByte(CharAt(part, i))
                       THEN "build: invalid character"
                       ELSE BuildErrorLeadingZeros(Tail(parts))

\* The first error of the build loop, "" when every part passes.
RECURSIVE BuildError(_)
BuildError(parts) ==
    IF parts = <<>> THEN ""
    ELSE LET part == Head(parts)
         IN  IF part = "" THEN "build: empty identifier"
             ELSE IF \E i \in 1..Len(part) : ~IsIdentByte(CharAt(part, i))
                  THEN "build: invalid character"
                  ELSE BuildError(Tail(parts))

\* Parse with the value filled so far returned by a failure of the pre-release
\* or build loop.
ParseReturnsPartial(t) ==
    LET versionAndMeta == SplitN2(t, "+")
        versionPart == versionAndMeta[1]
        build == IF Len(versionAndMeta) > 1 THEN versionAndMeta[2] ELSE ""
        versionAndPreRelease == SplitN2(versionPart, "-")
        versionCore == versionAndPreRelease[1]
        preRelease == IF Len(versionAndPreRelease) > 1
                      THEN versionAndPreRelease[2] ELSE ""
        versionParts == Split(versionCore, ".")
        major == ParseUint(versionParts[1], 0)
        minor == ParseUint(versionParts[2], 0)
        patch == ParseUint(versionParts[3], 0)
        preErr == IF preRelease # ""
                  THEN PreReleaseError(Split(preRelease, ".")) ELSE ""
        buildErr == IF build # "" THEN BuildError(Split(build, ".")) ELSE ""
    IN  IF Len(versionParts) # 3 THEN Failure("format: expected major.minor.patch")
        ELSE IF major.err # "" THEN Failure("major: invalid")
        ELSE IF minor.err # "" THEN Failure("minor: invalid")
        ELSE IF patch.err # "" THEN Failure("patch: invalid")
        ELSE IF versionParts[1] # "0" /\ HasPrefix0(versionParts[1])
             THEN Failure("major: leading zeros")
        ELSE IF versionParts[2] # "0" /\ HasPrefix0(versionParts[2])
             THEN Failure("minor: leading zeros")
        ELSE IF versionParts[3] # "0" /\ HasPrefix0(versionParts[3])
             THEN Failure("patch: leading zeros")
        ELSE IF preErr # ""
             THEN [err |-> preErr,
                   v |-> SemVer(major.n, minor.n, patch.n, preRelease, build)]
        ELSE IF buildErr # ""
             THEN [err |-> buildErr,
                   v |-> SemVer(major.n, minor.n, patch.n, preRelease, build)]
        ELSE [err |-> "",
              v |-> SemVer(major.n, minor.n, patch.n, preRelease, build)]

\* Parse with the split at the first "-" made ahead of the split at "+".
ParseHyphenFirst(t) ==
    LET versionAndPreRelease == SplitN2(t, "-")
        versionPart == versionAndPreRelease[1]
        preRelease == IF Len(versionAndPreRelease) > 1
                      THEN versionAndPreRelease[2] ELSE ""
        versionAndMeta == SplitN2(versionPart, "+")
        versionCore == versionAndMeta[1]
        build == IF Len(versionAndMeta) > 1 THEN versionAndMeta[2] ELSE ""
        versionParts == Split(versionCore, ".")
        major == ParseUint(versionParts[1], 0)
        minor == ParseUint(versionParts[2], 0)
        patch == ParseUint(versionParts[3], 0)
        preErr == IF preRelease # ""
                  THEN PreReleaseError(Split(preRelease, ".")) ELSE ""
        buildErr == IF build # "" THEN BuildError(Split(build, ".")) ELSE ""
    IN  IF Len(versionParts) # 3 THEN Failure("format: expected major.minor.patch")
        ELSE IF major.err # "" THEN Failure("major: invalid")
        ELSE IF minor.err # "" THEN Failure("minor: invalid")
        ELSE IF patch.err # "" THEN Failure("patch: invalid")
        ELSE IF versionParts[1] # "0" /\ HasPrefix0(versionParts[1])
             THEN Failure("major: leading zeros")
        ELSE IF versionParts[2] # "0" /\ HasPrefix0(versionParts[2])
             THEN Failure("minor: leading zeros")
        ELSE IF versionParts[3] # "0" /\ HasPrefix0(versionParts[3])
             THEN Failure("patch: leading zeros")
        ELSE IF preErr # "" THEN Failure(preErr)
        ELSE IF buildErr # "" THEN Failure(buildErr)
        ELSE [err |-> "",
              v |-> SemVer(major.n, minor.n, patch.n, preRelease, build)]

\* func Parse(tag string) (SemVer, error); err = "" is a nil error.
Parse(t) ==
    LET versionAndMeta == SplitN2(t, "+")
        versionPart == versionAndMeta[1]
        build == IF Len(versionAndMeta) > 1 THEN versionAndMeta[2] ELSE ""
        versionAndPreRelease == SplitN2(versionPart, "-")
        versionCore == versionAndPreRelease[1]
        preRelease == IF Len(versionAndPreRelease) > 1
                      THEN versionAndPreRelease[2] ELSE ""
        versionParts == Split(versionCore, ".")
        major == ParseUint(versionParts[1], 0)
        minor == ParseUint(versionParts[2], 0)
        patch == ParseUint(versionParts[3], 0)
        preErr == IF preRelease # ""
                  THEN PreReleaseError(Split(preRelease, ".")) ELSE ""
        buildErr == IF build # "" THEN BuildError(Split(build, ".")) ELSE ""
    IN  IF Len(versionParts) # 3 THEN Failure("format: expected major.minor.patch")
        ELSE IF major.err # "" THEN Failure("major: invalid")
        ELSE IF minor.err # "" THEN Failure("minor: invalid")
        ELSE IF patch.err # "" THEN Failure("patch: invalid")
        ELSE IF versionParts[1] # "0" /\ HasPrefix0(versionParts[1])
             THEN Failure("major: leading zeros")
        ELSE IF versionParts[2] # "0" /\ HasPrefix0(versionParts[2])
             THEN Failure("minor: leading zeros")
        ELSE IF versionParts[3] # "0" /\ HasPrefix0(versionParts[3])
             THEN Failure("patch: leading zeros")
        ELSE IF preErr # "" THEN Failure(preErr)
        ELSE IF buildErr # "" THEN Failure(buildErr)
        ELSE [err |-> "",
              v |-> SemVer(major.n, minor.n, patch.n, preRelease, build)]

\* The loop of Compare with its last branch returning -1 whichever side the
\* numeric identifier is on.
RECURSIVE ComparePartsOneSided(_, _, _)
ComparePartsOneSided(sParts, otherParts, i) ==
    LET minLen == IF Len(otherParts) < Len(sParts)
                  THEN Len(otherParts) ELSE Len(sParts)
    IN  IF i > minLen
        THEN IF Len(sParts) < Len(otherParts) THEN -1
             ELSE IF Len(sParts) > Len(otherParts) THEN 1
             ELSE 0
        ELSE LET sPart == sParts[i]
                 otherPart == otherParts[i]
                 sNum == ParseUint(sPart, 64)
                 otherNum == ParseUint(otherPart, 64)
             IN  IF sNum.err = "" /\ otherNum.err = ""
                 THEN IF sNum.n < otherNum.n THEN -1
                      ELSE IF sNum.n > otherNum.n THEN 1
                      ELSE ComparePartsOneSided(sParts, otherParts, i + 1)
                 ELSE IF sNum.err # "" /\ otherNum.err # ""
                 THEN IF StrLess(sPart, otherPart) THEN -1
                      ELSE IF StrLess(otherPart, sPart) THEN 1
                      ELSE ComparePartsOneSided(sParts, otherParts, i + 1)
                 ELSE -1

\* The loop of Compare over the pre-release identifiers from index i on,
\* and the comparison of the two lengths after it.
\* The identifier loop with a numeric identifier and one that is not numeric
\* compared as strings.
RECURSIVE ComparePartsMixedByBytes(_, _, _)
ComparePartsMixedByBytes(sParts, otherParts, i) ==
    LET minLen == IF Len(otherParts) < Len(sParts)
                  THEN Len(otherParts) ELSE Len(sParts)
    IN  IF i > minLen
        THEN IF Len(sParts) < Len(otherParts) THEN -1
             ELSE IF Len(sParts) > Len(otherParts) THEN 1
             ELSE 0
        ELSE LET sPart == sParts[i]
                 otherPart == otherParts[i]
                 sNum == ParseUint(sPart, 64)
                 otherNum == ParseUint(otherPart, 64)
             IN  IF sNum.err = "" /\ otherNum.err = ""
                 THEN IF sNum.n < otherNum.n THEN -1
                      ELSE IF sNum.n > otherNum.n THEN 1
                      ELSE ComparePartsMixedByBytes(sParts, otherParts, i + 1)
                 ELSE IF StrLess(sPart, otherPart) THEN -1
                      ELSE IF StrLess(otherPart, sPart) THEN 1
                      ELSE ComparePartsMixedByBytes(sParts, otherParts, i + 1)

\* The identifier loop without the comparison of the lengths after it.
RECURSIVE ComparePartsNoLength(_, _, _)
ComparePartsNoLength(sParts, otherParts, i) ==
    LET minLen == IF Len(otherParts) < Len(sParts)
                  THEN Len(otherParts) ELSE Len(sParts)
    IN  IF i > minLen
        THEN 0
        ELSE LET sPart == sParts[i]
                 otherPart == otherParts[i]
                 sNum == ParseUint(sPart, 64)
                 otherNum == ParseUint(otherPart, 64)
             IN  IF sNum.err = "" /\ otherNum.err = ""
                 THEN IF sNum.n < otherNum.n THEN -1
                      ELSE IF sNum.n > otherNum.n THEN 1
                      ELSE ComparePartsNoLength(sParts, otherParts, i + 1)
                 ELSE IF sNum.err # "" /\ otherNum.err # ""
                 THEN IF StrLess(sPart, otherPart) THEN -1
                      ELSE IF StrLess(otherPart, sPart) THEN 1
                      ELSE ComparePartsNoLength(sParts, otherParts, i + 1)
                 ELSE IF sNum.err = "" THEN -1 ELSE 1

RECURSIVE ComparePartsFrom(_, _, _)
ComparePartsFrom(sParts, otherParts, i) ==
    LET minLen == IF Len(otherParts) < Len(sParts)
                  THEN Len(otherParts) ELSE Len(sParts)
    IN  IF i > minLen
        THEN IF Len(sParts) < Len(otherParts) THEN -1
             ELSE IF Len(sParts) > Len(otherParts) THEN 1
             ELSE 0
        ELSE LET sPart == sParts[i]
                 otherPart == otherParts[i]
                 sNum == ParseUint(sPart, 64)
                 otherNum == ParseUint(otherPart, 64)
             IN  IF sNum.err = "" /\ otherNum.err = ""
                 THEN IF sNum.n < otherNum.n THEN -1
                      ELSE IF sNum.n > otherNum.n THEN 1
                      ELSE ComparePartsFrom(sParts, otherParts, i + 1)
                 ELSE IF sNum.err # "" /\ otherNum.err # ""
                 THEN IF StrLess(sPart, otherPart) THEN -1
                      ELSE IF StrLess(otherPart, sPart) THEN 1
                      ELSE ComparePartsFrom(sParts, otherParts, i + 1)
                 ELSE IF sNum.err = "" THEN -1 ELSE 1

\* Compare with the pre-release test ahead of major, minor and patch.
CompareReleaseFirst(s, other) ==
    IF s.PreRelease = "" /\ other.PreRelease # "" THEN 1
    ELSE IF s.PreRelease # "" /\ other.PreRelease = "" THEN -1
    ELSE IF s.Major < other.Major THEN -1
    ELSE IF s.Major > other.Major THEN 1
    ELSE IF s.Minor < other.Minor THEN -1
    ELSE IF s.Minor > other.Minor THEN 1
    ELSE IF s.Patch < other.Patch THEN -1
    ELSE IF s.Patch > other.Patch THEN 1
    ELSE IF s.PreRelease = "" /\ other.PreRelease = "" THEN 0
    ELSE ComparePartsFrom(Split(s.PreRelease, "."), Split(other.PreRelease, "."), 1)

\* Compare with build metadata breaking the tie of two releases.
CompareBuildBreaksTie(s, other) ==
    IF s.Major < other.Major THEN -1
    ELSE IF s.Major > other.Major THEN 1
    ELSE IF s.Minor < other.Minor THEN -1
    ELSE IF s.Minor > other.Minor THEN 1
    ELSE IF s.Patch < other.Patch THEN -1
    ELSE IF s.Patch > other.Patch THEN 1
    ELSE IF s.PreRelease = "" /\ other.PreRelease # "" THEN 1
    ELSE IF s.PreRelease # "" /\ other.PreRelease = "" THEN -1
    ELSE IF s.PreRelease = "" /\ other.PreRelease = ""
         THEN IF StrLess(s.Build, other.Build) THEN -1
              ELSE IF StrLess(other.Build, s.Build) THEN 1
              ELSE 0
    ELSE ComparePartsFrom(Split(s.PreRelease, "."), Split(other.PreRelease, "."), 1)

\* func (s SemVer) Compare(other SemVer) int
Compare(s, other) ==
    IF s.Major < other.Major THEN -1
    ELSE IF s.Major > other.Major THEN 1
    ELSE IF s.Minor < other.Minor THEN -1
    ELSE IF s.Minor > other.Minor THEN 1
    ELSE IF s.Patch < other.Patch THEN -1
    ELSE IF s.Patch > other.Patch THEN 1
    ELSE IF s.PreRelease = "" /\ other.PreRelease # "" THEN 1
    ELSE IF s.PreRelease # "" /\ other.PreRelease = "" THEN -1
    ELSE IF s.PreRelease = "" /\ other.PreRelease = "" THEN 0
    ELSE ComparePartsFrom(Split(s.PreRelease, "."), Split(other.PreRelease, "."), 1)

---------------------------------------------------------------------------
(* Sort                                                                    *)

\* The algorithms sort.Slice runs on a slice of at most 12 elements: insertion
\* sort alone (pdqsort_func, Go 1.19 and later), or one pass of Shell sort
\* with gap 6 and then insertion sort (quickSort_func, before Go 1.19).
SortAlgorithms == {"pdqsort", "quicksort"}

\* The gap of the Shell sort pass.
ShellGap == 6

\* func(i, j int) bool { return versions[i].Compare(versions[j]) < 0 }
Less(data, i, j) == Compare(data[i], data[j]) < 0

\* A swap that loses an element: data[i] = data[j] alone.
SwapOverwrites(data, i, j) == [data EXCEPT ![i] = data[j]]

\* The swapper of sort.Slice: data[i], data[j] = data[j], data[i]
Swap(data, i, j) == [data EXCEPT ![i] = data[j], ![j] = data[i]]

\* The inner loop with a single step: the element moves down one place only.
SinkOnce(data, j) ==
    IF j > 1 /\ Less(data, j, j - 1) THEN Swap(data, j, j - 1) ELSE data

\* for j := i; j > a && data.Less(j, j-1); j-- { data.Swap(j, j-1) }
RECURSIVE SinkFrom(_, _)
SinkFrom(data, j) ==
    IF j > 1 /\ Less(data, j, j - 1)
    THEN SinkFrom(Swap(data, j, j - 1), j - 1)
    ELSE data

\* for i := a + 1; i < b; i++ { ... }, on the whole slice
RECURSIVE InsertionSortFrom(_, _)
InsertionSortFrom(data, i) ==
    IF i > Len(data) THEN data
    ELSE InsertionSortFrom(SinkFrom(data, i), i + 1)

InsertionSort(data) == InsertionSortFrom(data, 2)

\* for i := a + 6; i < b; i++ { if data.Less(i, i-6) { data.Swap(i, i-6) } }
RECURSIVE ShellPassFrom(_, _)
ShellPassFrom(data, i) ==
    IF i > Len(data) THEN data
    ELSE ShellPassFrom(IF Less(data, i, i - ShellGap)
                       THEN Swap(data, i, i - ShellGap)
                       ELSE data,
                       i + 1)

ShellPass(data) == ShellPassFrom(data, ShellGap + 1)

\* func Sort(versions []SemVer), for a slice of at most 12 elements, sorted
\* by the algorithm of the toolchain.
Sort(vs, algorithm) ==
    IF algorithm = "pdqsort" THEN InsertionSort(vs)
    ELSE IF Len(vs) > 1 THEN InsertionSort(ShellPass(vs))
    ELSE vs

---------------------------------------------------------------------------
(* The Backus-Naur grammar of doc.go, one recogniser per nonterminal       *)

From(s, i) == SubSeq(s, i, Len(s))

Upto(s, i) == SubSeq(s, 1, i)

PositiveDigit(c) == c \in {"1", "2", "3", "4", "5", "6", "7", "8", "9"}

Digit(c) == c = "0" \/ PositiveDigit(c)

Letter(c) == c \in CharsOf(UpperChars) \cup CharsOf(LowerChars)

NonDigit(c) == Letter(c) \/ c = "-"

IdentifierCharacter(c) == Digit(c) \/ NonDigit(c)

\* <digits>: one digit or more
DigitsRule(s) == Len(s) >= 1 /\ \A i \in 1..Len(s) : Digit(CharAt(s, i))

\* <identifier characters>: one identifier character or more
IdentifierCharacters(s) ==
    Len(s) >= 1 /\ \A i \in 1..Len(s) : IdentifierCharacter(CharAt(s, i))

NumericIdentifier(s) ==
    \/ s = "0"
    \/ Len(s) = 1 /\ PositiveDigit(s)
    \/ Len(s) > 1 /\ PositiveDigit(Head(s)) /\ DigitsRule(Tail(s))

\* a non-digit with identifier characters before it, after it, both or neither
AlphanumericIdentifier(s) ==
    \E i \in 1..Len(s) :
        /\ NonDigit(CharAt(s, i))
        /\ i = 1 \/ IdentifierCharacters(Upto(s, i - 1))
        /\ i = Len(s) \/ IdentifierCharacters(From(s, i + 1))

BuildIdentifier(s) == AlphanumericIdentifier(s) \/ DigitsRule(s)

PreReleaseIdentifier(s) == AlphanumericIdentifier(s) \/ NumericIdentifier(s)

RECURSIVE DotSeparatedBuildIdentifiers(_)
DotSeparatedBuildIdentifiers(s) ==
    \/ BuildIdentifier(s)
    \/ \E i \in 1..Len(s) :
        /\ CharAt(s, i) = "."
        /\ BuildIdentifier(Upto(s, i - 1))
        /\ DotSeparatedBuildIdentifiers(From(s, i + 1))

RECURSIVE DotSeparatedPreReleaseIdentifiers(_)
DotSeparatedPreReleaseIdentifiers(s) ==
    \/ PreReleaseIdentifier(s)
    \/ \E i \in 1..Len(s) :
        /\ CharAt(s, i) = "."
        /\ PreReleaseIdentifier(Upto(s, i - 1))
        /\ DotSeparatedPreReleaseIdentifiers(From(s, i + 1))

VersionCore(s) ==
    \E i, j \in 1..Len(s) :
        /\ i < j
        /\ CharAt(s, i) = "."
        /\ CharAt(s, j) = "."
        /\ NumericIdentifier(Upto(s, i - 1))
        /\ NumericIdentifier(SubSeq(s, i + 1, j - 1))
        /\ NumericIdentifier(From(s, j + 1))

ValidSemver(s) ==
    \/ VersionCore(s)
    \/ \E i \in 1..Len(s) :
        /\ CharAt(s, i) = "-"
        /\ VersionCore(Upto(s, i - 1))
        /\ DotSeparatedPreReleaseIdentifiers(From(s, i + 1))
    \/ \E i \in 1..Len(s) :
        /\ CharAt(s, i) = "+"
        /\ VersionCore(Upto(s, i - 1))
        /\ DotSeparatedBuildIdentifiers(From(s, i + 1))
    \/ \E i, j \in 1..Len(s) :
        /\ i < j
        /\ CharAt(s, i) = "-"
        /\ CharAt(s, j) = "+"
        /\ VersionCore(Upto(s, i - 1))
        /\ DotSeparatedPreReleaseIdentifiers(SubSeq(s, i + 1, j - 1))
        /\ DotSeparatedBuildIdentifiers(From(s, j + 1))

---------------------------------------------------------------------------
(* Inputs                                                                  *)

\* The longest input built freely from Alphabet.
MaxLen == 6

\* The longest freely built text after a version core.
MaxTail == 4

\* Two digits, a letter, the three separators, and a byte outside
\* [0-9A-Za-z-+.].
Alphabet == {"0", "1", "a", "-", "+", ".", "_"}

\* The text whose bytes are f[1], ..., f[Len(f)].
RECURSIVE TextFrom(_, _)
TextFrom(f, i) == IF i > Len(f) THEN "" ELSE f[i] \o TextFrom(f, i + 1)

Text(f) == TextFrom(f, 1)

\* Version cores, well and ill formed, that the free tails are appended to.
Cores ==
    {"0.0.0", "1.0.10", "11.1.0", "01.0.0", "1.00.0", "1.0.01", "1.0", "1.0.0.0",
     "1..0", "a.0.0", "1.a.0", "v1.0.0", " 1.0.0", "1.0.1a", "01.a.3"}

\* Inputs with a number at or beyond 2^64.
LongInputs ==
    {"18446744073709551616.0.0", "0.18446744073709551616.0",
     "0.0.99999999999999999999", "100000000000000000000.1.1",
     "1.99999999999999999999.0-a+b",
     "1.0.0-18446744073709551616", "1.0.0-018446744073709551616",
     "1.0.0-099999999999999999999", "1.0.0-000000000000000000001",
     "1.0.0-a.00000000000000000000000+001"}

\* The tags of the table of TestParseSemVer.
TestTags ==
    {"1.2.3", "1.2.3-alpha", "1.2.3+build.123", "1.2.3-alpha.1+build.123",
     "1.2.3-alpha.1.beta.2", "0.0.0", "1.2.3-0.1.2", "1.2.3-alpha.1.beta-2",
     "1.2", "1.2.3.4", "a.2.3", "1.a.3", "1.2.a", "01.2.3", "1.02.3", "1.2.03",
     "1.2.3-alpha..beta", "1.2.3-alpha_beta", "1.2.3-alpha.01",
     "1.2.3+build..123", "1.2.3+build_123"}

\* The examples of rules 9 and 10 of doc.go.
DocTags ==
    {"1.0.0-alpha", "1.0.0-alpha.1", "1.0.0-0.3.7", "1.0.0-x.7.z.92",
     "1.0.0-x-y-z.--", "1.0.0-alpha+001", "1.0.0+20130313144700",
     "1.0.0-beta+exp.sha.5114f85", "1.0.0+21AF26D3----117B344092BD"}

\* tag is an input of Parse: any text of at most MaxLen bytes of Alphabet, a
\* core of Cores followed by any text of at most MaxTail bytes, a long one, a
\* tag of the tests or an example of doc.go.
IsInput ==
    \/ \E n \in 0..MaxLen : \E f \in [1..n -> Alphabet] : tag = Text(f)
    \/ \E c \in Cores : \E n \in 0..MaxTail : \E f \in [1..n -> Alphabet] :
            tag = c \o Text(f)
    \/ tag \in LongInputs \cup TestTags \cup DocTags

\* The largest of the small numbers String is given.
MaxNum == 1

\* The most identifiers in a generated pre-release or build.
MaxIds == 2

\* Two numbers at or beyond 2^64, the shorter one the larger in byte order.
Big21 == "100000000000000000000"
Big20 == "20000000000000000000"

\* First identifiers of a pre-release: numeric ones of one and two digits,
\* alphanumeric ones of either case, a lone hyphen, and the two beyond 2^64.
PreFirst == {"0", "2", "10", "a", "B", "-", Big21, Big20}

\* Identifiers that follow the first.
PreMore == {"1", "a"}

\* The pre-releases of the precedence example of doc.go (11.4.4).
ChainPre == {"alpha", "alpha.1", "alpha.beta", "beta", "beta.2", "beta.11", "rc.1"}

RECURSIVE Extended(_, _, _)
Extended(firsts, more, n) ==
    IF n <= 1 THEN firsts
    ELSE LET shorter == Extended(firsts, more, n - 1)
         IN  shorter \cup {s \o "." \o m : s \in shorter, m \in more}

PreReleases == {""} \cup Extended(PreFirst, PreMore, MaxIds) \cup ChainPre

Builds == {""} \cup Extended({"001", "b-1"}, {"7"}, MaxIds)

\* major, minor, patch of the values Compare is called on.
CompareCores ==
    {<<0, 0, 0>>, <<1, 0, 0>>, <<0, 1, 0>>, <<0, 0, 1>>, <<2, 0, 0>>, <<1, 10, 0>>}

\* v is a value Compare is called on: all of them satisfy the grammar.
IsCompareVersion(v) ==
    \E c \in CompareCores, p \in PreReleases, bd \in {"", "001"} :
        v = SemVer(c[1], c[2], c[3], p, bd)

\* Numbers of one, two and three digits for String.
CoreNums == (0..MaxNum) \cup {10, 120}

\* Pre-release and build texts that break the grammar.
BadTexts == {"01", "a..b", "a_b", ".a", "a+b"}

\* v is a value String is called on.
IsStringVersion(v) ==
    \E x \in CoreNums, y \in CoreNums, z \in CoreNums,
       p \in PreReleases \cup BadTexts, bd \in Builds \cup BadTexts :
        v = SemVer(x, y, z, p, bd)

NoResult == [err |-> "not called", v |-> ZeroSemVer]

\* Nothing has been called on three values, and IsRelease and Sort not at all.
Idle ==
    /\ third = ZeroSemVer
    /\ cmpBC = 0
    /\ cmpAC = 0
    /\ release = FALSE
    /\ impl = ""
    /\ versions = <<>>
    /\ sorted = <<>>

---------------------------------------------------------------------------
(* Parse, then String of what it returned                                  *)

Init ==
    /\ pc = "input"
    /\ IsInput
    /\ parsed = NoResult
    /\ rendered = ""
    /\ a = ZeroSemVer
    /\ b = ZeroSemVer
    /\ cmp = 0
    /\ rev = 0
    /\ Idle

\* semver, err := Parse(tag)
DoParse ==
    /\ pc = "input"
    /\ parsed' = Parse(tag)
    /\ pc' = "parsed"
    /\ UNCHANGED <<tag, rendered, a, b, cmp, rev, others>>

\* semver.String(), for the value of a Parse that returned no error
DoString ==
    /\ pc = "parsed"
    /\ parsed.err = ""
    /\ rendered' = String(parsed.v)
    /\ pc' = "rendered"
    /\ UNCHANGED <<tag, parsed, a, b, cmp, rev, others>>

Next == DoParse \/ DoString

Spec == Init /\ [][Next]_vars

---------------------------------------------------------------------------
(* String of a value built directly, then Parse of the text                *)

InitValue ==
    /\ pc = "value"
    /\ IsStringVersion(a)
    /\ tag = ""
    /\ parsed = NoResult
    /\ rendered = ""
    /\ b = ZeroSemVer
    /\ cmp = 0
    /\ rev = 0
    /\ Idle

\* tag := a.String()
DoStringValue ==
    /\ pc = "value"
    /\ tag' = String(a)
    /\ pc' = "input"
    /\ UNCHANGED <<parsed, rendered, a, b, cmp, rev, others>>

\* release := a.IsRelease()
DoIsRelease ==
    /\ pc = "value"
    /\ release' = IsRelease(a)
    /\ pc' = "asked"
    /\ UNCHANGED <<tag, parsed, rendered, a, b, cmp, rev, third, cmpBC, cmpAC,
                   impl, versions, sorted>>

NextInverse == DoStringValue \/ DoParse \/ DoString \/ DoIsRelease

SpecInverse == InitValue /\ [][NextInverse]_vars

---------------------------------------------------------------------------
(* Compare of two values built directly                                    *)

InitCompare ==
    /\ pc = "receiver"
    /\ IsCompareVersion(a)
    /\ b = ZeroSemVer
    /\ cmp = 0
    /\ rev = 0
    /\ tag = ""
    /\ parsed = NoResult
    /\ rendered = ""
    /\ Idle

\* cmp := a.Compare(other)
DoCompare ==
    /\ pc = "receiver"
    /\ IsCompareVersion(b')
    /\ cmp' = Compare(a, b')
    /\ pc' = "compared"
    /\ UNCHANGED <<tag, parsed, rendered, a, rev, others>>

\* rev := b.Compare(a)
DoCompareBack ==
    /\ pc = "compared"
    /\ rev' = Compare(b, a)
    /\ pc' = "compared both ways"
    /\ UNCHANGED <<tag, parsed, rendered, a, b, cmp, others>>

NextCompare == DoCompare \/ DoCompareBack

SpecCompare == InitCompare /\ [][NextCompare]_vars

---------------------------------------------------------------------------
(* Compare on the three pairs of three values                              *)

\* v is one of the three values: one core with every pre-release, and a
\* larger core as a release and as a pre-release.
IsTripleVersion(v) ==
    \/ \E p \in PreReleases : v = SemVer(1, 0, 0, p, "")
    \/ v \in {SemVer(2, 0, 0, "", ""), SemVer(2, 0, 0, "alpha", "001")}

InitTriple ==
    /\ pc = "first"
    /\ IsTripleVersion(a)
    /\ b = ZeroSemVer
    /\ cmp = 0
    /\ rev = 0
    /\ tag = ""
    /\ parsed = NoResult
    /\ rendered = ""
    /\ Idle

\* cmp := a.Compare(b)
DoCompareAB ==
    /\ pc = "first"
    /\ IsTripleVersion(b')
    /\ cmp' = Compare(a, b')
    /\ pc' = "second"
    /\ UNCHANGED <<tag, parsed, rendered, a, rev, others>>

\* cmpBC := b.Compare(third)
DoCompareBC ==
    /\ pc = "second"
    /\ IsTripleVersion(third')
    /\ cmpBC' = Compare(b, third')
    /\ pc' = "third"
    /\ UNCHANGED <<tag, parsed, rendered, a, b, cmp, rev, cmpAC, release, impl,
                   versions, sorted>>

\* cmpAC := a.Compare(third)
DoCompareAC ==
    /\ pc = "third"
    /\ cmpAC' = Compare(a, third)
    /\ pc' = "all three"
    /\ UNCHANGED <<tag, parsed, rendered, a, b, cmp, rev, third, cmpBC, release,
                   impl, versions, sorted>>

NextTriple == DoCompareAB \/ DoCompareBC \/ DoCompareAC

SpecTriple == InitTriple /\ [][NextTriple]_vars

---------------------------------------------------------------------------
(* Sort of a slice built directly                                          *)

\* The longest slice given to Sort.
MaxSortLen == 7

\* The elements of the slices: two releases that differ in build metadata
\* only, a pre-release of the same core, and a release of a smaller core.
SortVersions ==
    {SemVer(1, 0, 0, "", "build.2"), SemVer(1, 0, 0, "", "build.1"),
     SemVer(1, 0, 0, "alpha", "build.3"), SemVer(0, 9, 9, "", "")}

InitSort ==
    /\ pc = "slice"
    /\ impl \in SortAlgorithms
    /\ \E n \in 0..MaxSortLen : \E f \in [1..n -> SortVersions] : versions = f
    /\ sorted = <<>>
    /\ third = ZeroSemVer
    /\ cmpBC = 0
    /\ cmpAC = 0
    /\ release = FALSE
    /\ a = ZeroSemVer
    /\ b = ZeroSemVer
    /\ cmp = 0
    /\ rev = 0
    /\ tag = ""
    /\ parsed = NoResult
    /\ rendered = ""

\* Sort(versions)
DoSort ==
    /\ pc = "slice"
    /\ sorted' = Sort(versions, impl)
    /\ pc' = "sorted"
    /\ UNCHANGED <<tag, parsed, rendered, a, b, cmp, rev, third, cmpBC, cmpAC,
                   release, impl, versions>>

NextSort == DoSort

SpecSort == InitSort /\ [][NextSort]_vars

---------------------------------------------------------------------------
(* Claims about Parse and String                                           *)

\* C1: Parse(t) returns no error exactly when t is derivable from
\* <valid semver>: no conforming input is rejected, no other is accepted.
C1_ParseAcceptsExactlyTheGrammar ==
    pc = "parsed" => (parsed.err = "" <=> ValidSemver(tag))

\* The input is a valid version core followed by a pre-release or build
\* marker whose section is empty: c-, c+, c-+<build>, c-<pre-release>+.
EmptySectionInput(t) ==
    \E i \in 1..Len(t) :
        /\ VersionCore(Upto(t, i))
        /\ LET rest == From(t, i + 1)
           IN  \/ rest = "-"
               \/ rest = "+"
               \/ Len(rest) > 2 /\ Upto(rest, 2) = "-+"
                    /\ DotSeparatedBuildIdentifiers(From(rest, 3))
               \/ Len(rest) > 2 /\ Head(rest) = "-" /\ CharAt(rest, Len(rest)) = "+"
                    /\ DotSeparatedPreReleaseIdentifiers(SubSeq(rest, 2, Len(rest) - 1))

EmptyIdentifierErrors == {"pre-release: empty identifier", "build: empty identifier"}

\* C2: on a valid core followed by "-", "+", "-+b" or "-a+", Parse
\* returns an empty-identifier error, never a version.
C2_EmptySectionIsAnError ==
    (pc = "parsed" /\ EmptySectionInput(tag)) => parsed.err \in EmptyIdentifierErrors

\* C3: whenever Parse(t) succeeds, Parse(t).String() is t itself.
C3_RoundTrip ==
    pc = "rendered" => rendered = tag

---------------------------------------------------------------------------
(* Claims about String followed by Parse                                   *)

\* The data-model invariants of a value: pre-release and build are absent
\* or derivable from <pre-release> and <build>.
ValidValue(v) ==
    /\ v.PreRelease = "" \/ DotSeparatedPreReleaseIdentifiers(v.PreRelease)
    /\ v.Build = "" \/ DotSeparatedBuildIdentifiers(v.Build)

\* C4: for every value v that satisfies the data-model invariants,
\* Parse(v.String()) returns no error and a value equal to v in all fields.
C4_InverseRoundTrip ==
    (pc \in {"parsed", "rendered"} /\ ValidValue(a)) =>
        (parsed.err = "" /\ parsed.v = a)

C4_Witness ==
    /\ pc = "parsed"
    /\ ValidValue(a)
    /\ a.Major >= 10
    /\ Len(Split(a.PreRelease, ".")) > 1
    /\ a.Build # ""
    /\ parsed.v = a

---------------------------------------------------------------------------
(* Claims about Compare                                                    *)

SameCore(x, y) == x.Major = y.Major /\ x.Minor = y.Minor /\ x.Patch = y.Patch

\* -1, 0 or 1 as m is below, equal to or above n
Order(m, n) == IF m < n THEN -1 ELSE IF m > n THEN 1 ELSE 0

C6_PreReleaseBelowEveryRelease ==
    (pc = "compared" /\ a.PreRelease # "" /\ b.PreRelease = "") => cmp = -1

\* The first index at which two identifier lists differ, 0 when one is a
\* prefix of the other.
FirstDifference(sParts, otherParts) ==
    LET common == {i \in 1..Len(sParts) : i <= Len(otherParts)}
        differing == {i \in common : sParts[i] # otherParts[i]}
    IN  IF differing = {} THEN 0
        ELSE CHOOSE i \in differing : \A j \in differing : i <= j

\* x < y as integers, for two numeric identifiers of any length.
ValueLess(x, y) == Len(x) < Len(y) \/ (Len(x) = Len(y) /\ StrLess(x, y))

BothPreReleases == pc = "compared" /\ SameCore(a, b) /\ a.PreRelease # "" /\ b.PreRelease # ""

\* C7: with equal cores and two pre-releases whose first differing
\* identifiers are both numeric, of any length, Compare orders the versions
\* by the integer values of those identifiers.
C7_NumericIdentifiersByValue ==
    BothPreReleases =>
        LET sParts == Split(a.PreRelease, ".")
            otherParts == Split(b.PreRelease, ".")
            i == FirstDifference(sParts, otherParts)
        IN  (i # 0 /\ NumericIdentifier(sParts[i]) /\ NumericIdentifier(otherParts[i]))
                => cmp = (IF ValueLess(sParts[i], otherParts[i]) THEN -1 ELSE 1)

\* The precedence example of doc.go, lowest first; "" is 1.0.0 itself.
Chain == <<"alpha", "alpha.1", "alpha.beta", "beta", "beta.2", "beta.11", "rc.1", "">>

\* C8: with equal cores and two pre-releases, Compare is the lexicographic
\* order of the identifier lists: a numeric identifier below any alphanumeric
\* one, alphanumeric ones in byte order, a proper prefix below the longer
\* list; and the example chain of the standard is ascending.
C8_IdentifierListOrder ==
    /\ BothPreReleases =>
        LET sParts == Split(a.PreRelease, ".")
            otherParts == Split(b.PreRelease, ".")
            i == FirstDifference(sParts, otherParts)
        IN  /\ i = 0 => cmp = Order(Len(sParts), Len(otherParts))
            /\ (i # 0 /\ NumericIdentifier(sParts[i])
                      /\ AlphanumericIdentifier(otherParts[i])) => cmp = -1
            /\ (i # 0 /\ AlphanumericIdentifier(sParts[i])
                      /\ NumericIdentifier(otherParts[i])) => cmp = 1
            /\ (i # 0 /\ AlphanumericIdentifier(sParts[i])
                      /\ AlphanumericIdentifier(otherParts[i]))
                  => cmp = (IF StrLess(sParts[i], otherParts[i]) THEN -1 ELSE 1)
    /\ (pc = "compared" /\ SameCore(a, b)) =>
        \A i, j \in 1..Len(Chain) :
            (a.PreRelease = Chain[i] /\ b.PreRelease = Chain[j]) => cmp = Order(i, j)

\* Builds put in place of those of a and b.
OtherBuilds == {"", "001", "b-1.7"}

\* C9: build metadata never changes the result of Compare: with any two
\* builds put in place of those of a and b the result is the same, and two
\* versions that differ only in build metadata compare equal.
C9_BuildIgnored ==
    pc = "compared" =>
        /\ \A x, y \in OtherBuilds :
            Compare([a EXCEPT !.Build = x], [b EXCEPT !.Build = y]) = cmp
        /\ (SameCore(a, b) /\ a.PreRelease = b.PreRelease) => cmp = 0

C9_Witness ==
    /\ pc = "compared"
    /\ SameCore(a, b)
    /\ a.PreRelease = b.PreRelease
    /\ a.Build # b.Build
    /\ cmp = 0

\* C10: Compare(a, b) = -1 exactly when Compare(b, a) = 1, and
\* Compare(a, b) = 0 exactly when Compare(b, a) = 0.
C10_Antisymmetry ==
    pc = "compared both ways" =>
        /\ cmp = -1 <=> rev = 1
        /\ cmp = 0 <=> rev = 0

C10_Witness ==
    /\ pc = "compared both ways"
    /\ SameCore(a, b)
    /\ NumericIdentifier(a.PreRelease)
    /\ AlphanumericIdentifier(b.PreRelease)
    /\ cmp = -1
    /\ rev = 1

\* C11: Compare is transitive: whenever a.Compare(b) <= 0 and
\* b.Compare(third) <= 0, also a.Compare(third) <= 0, for all three values
\* that satisfy the grammar, with numeric identifiers, alphanumeric ones and
\* pre-releases of different lengths among them.
C11_Transitive ==
    (pc = "all three" /\ cmp <= 0 /\ cmpBC <= 0) => cmpAC <= 0

\* A numeric identifier, one beyond 2^64 and a longer list in one chain.
C11_Witness ==
    /\ pc = "all three"
    /\ a.PreRelease = "2"
    /\ b.PreRelease = Big21
    /\ third.PreRelease = "a.1"
    /\ cmp = -1
    /\ cmpBC = -1
    /\ cmpAC = -1

\* C18: Compare returns 0 exactly when the two values have the same major,
\* minor, patch and pre-release; the build metadata has no part in it.
C18_ZeroIffSameFields ==
    pc \in {"compared", "compared both ways"} =>
        (cmp = 0 <=> /\ a.Major = b.Major
                     /\ a.Minor = b.Minor
                     /\ a.Patch = b.Patch
                     /\ a.PreRelease = b.PreRelease)

\* Two values with the same four fields and different build metadata.
C18_Witness ==
    /\ pc = "compared"
    /\ a.PreRelease = "10.a"
    /\ b.PreRelease = "10.a"
    /\ a.Major = 2
    /\ b.Major = 2
    /\ a.Build = "001"
    /\ b.Build = ""
    /\ cmp = 0

---------------------------------------------------------------------------
(* Claims about Sort                                                       *)

\* C12: after Sort returns, every element is at most the next one:
\* Compare(sorted[i], sorted[i+1]) <= 0 for every adjacent pair, whatever the
\* order of the slice before the call (sorted and reverse sorted included).
C12_SortedAscending ==
    pc = "sorted" =>
        \A i \in 1..(Len(sorted) - 1) : Compare(sorted[i], sorted[i + 1]) <= 0

\* A slice in descending order has been put in ascending order.
C12_Witness ==
    /\ pc = "sorted"
    /\ versions = <<SemVer(1, 0, 0, "", "build.2"),
                    SemVer(1, 0, 0, "alpha", "build.3"), SemVer(0, 9, 9, "", "")>>
    /\ sorted = <<SemVer(0, 9, 9, "", ""), SemVer(1, 0, 0, "alpha", "build.3"),
                  SemVer(1, 0, 0, "", "build.2")>>

\* The elements of after that Compare takes for equal to x are those of
\* before, in the order they have in before.
KeepsOrderOf(x, before, after) ==
    LET Same(y) == Compare(y, x) = 0
    IN  SelectSeq(after, Same) = SelectSeq(before, Same)

\* C13: Sort is stable: elements that compare equal (they differ in build
\* metadata at most) are in the same relative order after Sort as before.
C13_Stable ==
    pc = "sorted" =>
        \A i \in 1..Len(versions) : KeepsOrderOf(versions[i], versions, sorted)

\* How many elements of the slice are the value x, all five fields compared.
Count(x, slice) == Cardinality({i \in 1..Len(slice) : slice[i] = x})

\* C23: Sort only reorders: the slice after Sort has the length it had
\* before and holds every value, build metadata included, as many times as
\* before; nothing is dropped, duplicated or altered.
C23_SortPermutes ==
    pc = "sorted" =>
        /\ Len(sorted) = Len(versions)
        /\ \A i \in 1..Len(sorted) : sorted[i] \in SortVersions
        /\ \A x \in SortVersions : Count(x, sorted) = Count(x, versions)

\* A slice with a repeated element that Sort had to reorder.
C23_Witness ==
    /\ pc = "sorted"
    /\ versions = <<SemVer(1, 0, 0, "", "build.2"), SemVer(0, 9, 9, "", ""),
                    SemVer(1, 0, 0, "alpha", "build.3"),
                    SemVer(1, 0, 0, "", "build.2")>>
    /\ sorted = <<SemVer(0, 9, 9, "", ""), SemVer(1, 0, 0, "alpha", "build.3"),
                  SemVer(1, 0, 0, "", "build.2"), SemVer(1, 0, 0, "", "build.2")>>

---------------------------------------------------------------------------
(* Claims about the sections of a tag and the failures of Parse            *)

\* The sections of a tag: the build is what follows the first "+", the
\* pre-release what follows the first "-" of the text before that "+", and
\* the core the text before both.
HasBuildSection(t) == IndexByte(t, "+") # 0

BuildSection(t) ==
    IF HasBuildSection(t) THEN From(t, IndexByte(t, "+") + 1) ELSE ""

BeforeBuild(t) ==
    IF HasBuildSection(t) THEN Upto(t, IndexByte(t, "+") - 1) ELSE t

HasPreSection(t) == IndexByte(BeforeBuild(t), "-") # 0

PreSection(t) ==
    IF HasPreSection(t)
    THEN From(BeforeBuild(t), IndexByte(BeforeBuild(t), "-") + 1)
    ELSE ""

CoreSection(t) ==
    IF HasPreSection(t)
    THEN Upto(BeforeBuild(t), IndexByte(BeforeBuild(t), "-") - 1)
    ELSE BeforeBuild(t)

\* Some identifier of the section is empty, next to a dot.
EmptyAmongDots(section) ==
    LET ids == Split(section, ".")
    IN  Len(ids) > 1 /\ \E i \in 1..Len(ids) : ids[i] = ""

\* Some byte of the section is none of [0-9A-Za-z-] and no dot.
ForeignByte(section) ==
    \E i \in 1..Len(section) :
        /\ CharAt(section, i) # "."
        /\ ~IdentifierCharacter(CharAt(section, i))

\* The core is not three parts of digits without leading zeros.
BadCore(core) ==
    LET parts == Split(core, ".")
    IN  \/ Len(parts) # 3
        \/ \E i \in 1..Len(parts) :
                \/ parts[i] = ""
                \/ ~AllDigits(parts[i])
                \/ Len(parts[i]) > 1 /\ CharAt(parts[i], 1) = "0"

Malformed(t) ==
    \/ BadCore(CoreSection(t))
    \/ EmptyAmongDots(PreSection(t))
    \/ EmptyAmongDots(BuildSection(t))
    \/ ForeignByte(PreSection(t))
    \/ ForeignByte(BuildSection(t))

\* C14: Parse returns an error for every tag whose core is not exactly three
\* dot separated parts, or has a part that is empty, holds a byte that is no
\* digit, or has a leading zero without being "0"; and for every tag with an
\* empty identifier next to a dot, or with a byte outside [0-9A-Za-z-], in
\* its pre-release or its build.
C14_MalformedFails ==
    (pc = "parsed" /\ Malformed(tag)) => parsed.err # ""

\* A well-formed core, then a build with an empty identifier between dots.
C14_Witness ==
    /\ pc = "parsed"
    /\ tag = "1.2.3+build..123"
    /\ Malformed(tag)
    /\ parsed.err = "build: empty identifier"

\* Digits only, more than one, the first of them a zero.
LeadingZeroNumber(id) ==
    Len(id) > 1 /\ AllDigits(id) /\ CharAt(id, 1) = "0"

\* The core satisfies the grammar and its numbers are below 2^64.
GoodCore(core) ==
    /\ VersionCore(core)
    /\ \A i \in 1..3 : ~OutOfRange(Split(core, ".")[i], IntSize)

\* The tag has a good core, no build, and a pre-release whose identifiers
\* satisfy the grammar but for those, at least one, that are numbers with a
\* leading zero.
LeadingZeroTag(t) ==
    LET ids == Split(PreSection(t), ".")
    IN  /\ GoodCore(CoreSection(t))
        /\ ~HasBuildSection(t)
        /\ \A i \in 1..Len(ids) :
                PreReleaseIdentifier(ids[i]) \/ LeadingZeroNumber(ids[i])
        /\ \E i \in 1..Len(ids) : LeadingZeroNumber(ids[i])

\* C15: a pre-release identifier of digits only with a leading zero, of any
\* length and other than "0", makes Parse fail with the leading-zero error;
\* the identifier "0" is accepted.
C15_LeadingZeroRejected ==
    pc = "parsed" =>
        /\ LeadingZeroTag(tag) => parsed.err = "pre-release: leading zeros"
        /\ (GoodCore(CoreSection(tag)) /\ ~HasBuildSection(tag)
                /\ PreSection(tag) = "0") => parsed.err = ""

\* C16: when Parse fails it returns the zero SemVer together with the error,
\* whichever of its tests failed.
C16_FailureReturnsZero ==
    (pc = "parsed" /\ parsed.err # "") => parsed.v = ZeroSemVer

\* A failure of the last test, after the core, the pre-release and the build
\* had been read.
C16_Witness ==
    /\ pc = "parsed"
    /\ tag = "1.0.10-a+_"
    /\ parsed.err = "build: invalid character"
    /\ parsed.v = ZeroSemVer

\* C19: Parse splits the tag at its first "+" before it looks for "-": the
\* build is everything after the first "+", hyphens included, and the
\* pre-release is everything after the first "-" of the text before that
\* "+", later hyphens included.  1.0.0+b-1 has build "b-1" and no
\* pre-release; 1.0.0-a-b has pre-release "a-b".
C19_BuildSplitsFirst ==
    (pc = "parsed" /\ parsed.err = "") =>
        /\ parsed.v.Build = BuildSection(tag)
        /\ parsed.v.PreRelease = PreSection(tag)

\* A hyphen after the first "+" is part of the build.
C19_Witness ==
    /\ pc = "parsed"
    /\ tag = "0.0.0+a-1"
    /\ parsed.err = ""
    /\ parsed.v.Build = "a-1"
    /\ parsed.v.PreRelease = ""

\* A second hyphen before any "+" is part of the pre-release.
C19_SecondHyphen ==
    /\ pc = "parsed"
    /\ tag = "0.0.0-a-a"
    /\ parsed.err = ""
    /\ parsed.v.PreRelease = "a-a"
    /\ parsed.v.Build = ""

\* The tag has a good core, a pre-release, if any, that satisfies the grammar,
\* and a build whose identifiers satisfy the grammar, at least one of them a
\* number with a leading zero.
LeadingZeroBuildTag(t) ==
    LET ids == Split(BuildSection(t), ".")
    IN  /\ GoodCore(CoreSection(t))
        /\ HasPreSection(t) => DotSeparatedPreReleaseIdentifiers(PreSection(t))
        /\ HasBuildSection(t)
        /\ \A i \in 1..Len(ids) : BuildIdentifier(ids[i])
        /\ \E i \in 1..Len(ids) : LeadingZeroNumber(ids[i])

CoreOverflows(core) ==
    LET parts == Split(core, ".")
    IN  \E i \in 1..Len(parts) :
            /\ parts[i] # ""
            /\ AllDigits(parts[i])
            /\ OutOfRange(parts[i], IntSize)

\* C21: a part of the version core that is a digit string with a value of
\* 2^w or more, w the width of uint, makes Parse fail: no version comes out
\* with the value wrapped or truncated.
C21_CoreOverflowFails ==
    (pc = "parsed" /\ CoreOverflows(CoreSection(tag))) =>
        parsed.err # "" /\ parsed.v = ZeroSemVer

\* The smallest value beyond the range, as the major number of a core that
\* is well formed otherwise.
C21_Witness ==
    /\ pc = "parsed"
    /\ tag = "18446744073709551616.0.0"
    /\ CoreOverflows(CoreSection(tag))
    /\ parsed.err = "major: invalid"

\* The first part of a tag with a core of three parts that breaks the grammar
\* or, in the core, leaves the range of uint: parts taken in the order
\* major, minor, patch, pre-release, build.
FirstDefect(t) ==
    LET parts == Split(CoreSection(t), ".")
        BadPart(i) ==
            ~NumericIdentifier(parts[i]) \/ OutOfRange(parts[i], IntSize)
    IN  IF BadPart(1) THEN "major"
        ELSE IF BadPart(2) THEN "minor"
        ELSE IF BadPart(3) THEN "patch"
        ELSE IF HasPreSection(t)
                /\ ~DotSeparatedPreReleaseIdentifiers(PreSection(t))
             THEN "pre-release"
        ELSE IF HasBuildSection(t)
                /\ ~DotSeparatedBuildIdentifiers(BuildSection(t))
             THEN "build"
        ELSE "none"

\* The part of the tag an error of Parse is about.
ErrorPart(e) == Upto(e, IndexByte(e, ":") - 1)

\* C22: when a tag breaks several rules, the failure of Parse is about the
\* first offending part in the order of the tag: major before minor and
\* patch, the core before the pre-release, the pre-release before the build.
\* For 01.a.3 the failure is the leading zero of major, not the minor "a".
C22_FirstDefectReported ==
    (pc = "parsed" /\ Len(Split(CoreSection(tag), ".")) = 3
        /\ FirstDefect(tag) # "none") =>
            parsed.err # "" /\ ErrorPart(parsed.err) = FirstDefect(tag)

---------------------------------------------------------------------------
(* Claims about IsRelease                                                  *)

\* C17: IsRelease is true exactly of the values without pre-release; the
\* build metadata and the three numbers never change what it returns.
C17_IsReleaseIffNoPreRelease ==
    pc = "asked" =>
        /\ release <=> a.PreRelease = ""
        /\ \A n \in CoreNums :
                /\ IsRelease([a EXCEPT !.Major = n]) = release
                /\ IsRelease([a EXCEPT !.Minor = n]) = release
                /\ IsRelease([a EXCEPT !.Patch = n]) = release
        /\ \A bd \in Builds : IsRelease([a EXCEPT !.Build = bd]) = release

\* A value with build metadata and no pre-release is a release.
C17_Witness ==
    /\ pc = "asked"
    /\ a.PreRelease = ""
    /\ a.Build = "001.7"
    /\ release = TRUE

=============================================================================
